---- MODULE Spec2Model ----
(***************************************************************************)
(* Model of the sciwing / parsect training pipeline:                       *)
(*   - sciwing.engine.engine.Engine (epoch loop, checkpoints, best model)  *)
(*   - parsect.datasets.parsect_dataset.ParsectDataset                     *)
(*   - parsect.clients.parsect_inference.ParsectInference.load_model       *)
(* Spec       : one Engine.run() followed by ParsectInference.load_model   *)
(* SpecCalls  : the public epoch methods of Engine called in any order     *)
(* SpecDataset: construction of a ParsectDataset and __getitem__           *)
(***************************************************************************)
EXTENDS Integers, Sequences, FiniteSets, TLC

(***************************************************************************)
(* Bounds of the model                                                     *)
(***************************************************************************)
\* largest num_epochs given to the Engine
MaxEpochs == 2
\* number of public epoch calls made in SpecCalls
MaxCalls == 3

\* values of the constructor argument save_every
SaveEveryChoices == {1, 2}
\* values of the constructor argument log_train_metrics_every
LogEveryChoices == {1, 2}
\* values of the constructor argument batch_size
BatchSizes == {1}
\* number of instances of the three datasets given to the Engine
DatasetSize == [train |-> 2, validation |-> 2, test |-> 2]
\* the label classes of the instances
Classes == {0, 1}

TrackModes == {"loss", "macro_fscore", "micro_fscore"}

\* the value of a missing entry / Python None
None == "None"

VARIABLES
    \* ---- Engine: constructor arguments (engine.py 56-76)
    track_for_best, num_epochs, save_every, log_train_metrics_every, batch_size,
    \* ---- Engine: state
    pc,                    \* position of the thread of control
    run_epoch_num,         \* loop variable epoch_num of run(); -1 = unbound
    epoch_num,             \* argument epoch_num of the epoch method executing
    model,                 \* model parameters (id of the optimizer step that made them)
    model_mode,            \* "train" / "eval" (model.train(), model.eval())
    optimizer,             \* optimizer state: number of steps taken
    batch_iter,            \* train_iter / valid_iter / test_iter: next batch index
    num_iterations,        \* local num_iterations of train_epoch
    train_loss_meter, validation_loss_meter,
    train_metric_calc, validation_metric_calc, test_metric_calc,
    best_track_value,
    files,                 \* save_dir: file name -> checkpoint record
    printed,               \* what the current train_epoch printed: reports and failures
    calls,                 \* number of public calls made (SpecCalls)
    \* ---- ParsectInference.load_model
    inf_model, inf_loss_value, inf_file,
    \* ---- history variables (observe only)
    seen,                  \* confusion counts of the batches of the current call
    consumed,              \* batch indices the current call has drawn from its iterator
    model_forward_out,     \* the dictionary the model returned for the last batch
    log,                   \* epoch methods started and ended, in order
    history,               \* per validation epoch: epoch, tracked value, parameters
    \* ---- ParsectDataset: constructor arguments (parsect_dataset.py 71-84)
    secthead_label_file,   \* the records of the label file, in file order
    dataset_type, max_num_words, max_length, debug,
    \* ---- ParsectDataset: state
    ds_pc,                 \* position inside __init__, then "ready"
    parsect_json, lines, labels, instances, vocab,
    random_ints,           \* the indices drawn by np.random.randint in debug mode
    item,                  \* the dictionary the last __getitem__ returned
    \* ---- ParsectInference (parsect_inference.py 32-79)
    inf_pc,                \* position inside __init__, then "constructed"
    inf_batch_size,        \* config['BATCH_SIZE']
    inf_batch_iter,        \* batches the loader of run_inference has yielded
    output_analytics,      \* the five columns run_inference collects
    output_df,             \* the data frame built from them, one record per row
    misclassified          \* the last call of get_misclassified_sentences

dsargs == <<secthead_label_file, dataset_type, max_num_words, max_length, debug>>
dsvars == <<secthead_label_file, dataset_type, max_num_words, max_length, debug,
            ds_pc, parsect_json, lines, labels, instances, vocab, random_ints, item>>
cfgvars == <<track_for_best, num_epochs, save_every, log_train_metrics_every, batch_size>>
metervars == <<train_loss_meter, validation_loss_meter>>
metricvars == <<train_metric_calc, validation_metric_calc, test_metric_calc>>
infvars == <<inf_model, inf_loss_value, inf_file>>
iavars == <<inf_pc, inf_batch_size, inf_batch_iter, output_analytics, output_df, misclassified>>
enginevars == <<track_for_best, num_epochs, save_every, log_train_metrics_every, batch_size,
          pc, run_epoch_num, epoch_num, model, model_mode, optimizer, batch_iter,
          num_iterations, train_loss_meter, validation_loss_meter,
          train_metric_calc, validation_metric_calc, test_metric_calc,
          best_track_value, files, printed, calls,
          inf_model, inf_loss_value, inf_file, seen, consumed, model_forward_out,
          log, history>>
vars == <<enginevars, dsvars, iavars>>

(***************************************************************************)
(* Numbers: averages and f-scores are fractions num/den; np.inf is 1/0     *)
(***************************************************************************)
Frac(n, d) == [num |-> n, den |-> d]
Inf == Frac(1, 0)
Zero == Frac(0, 1)
\* a < b and a >= b on floats (np.inf included)
Less(a, b) == a.num * b.den < b.num * a.den
GreaterEq(a, b) == a.num * b.den >= b.num * a.den

Min(a, b) == IF a < b THEN a ELSE b

(***************************************************************************)
(* DataLoader(dataset, batch_size): batches in dataset order, the last one *)
(* possibly shorter                                                        *)
(***************************************************************************)
NumBatches(kind) == (DatasetSize[kind] + batch_size - 1) \div batch_size
\* the instances (0-based) of batch b (0-based)
BatchInstances(kind, b) ==
    [k \in 1..Min(batch_size, DatasetSize[kind] - b * batch_size) |-> b * batch_size + k - 1]
\* iter_dict["label"] of a batch: instance i carries the label i mod 2
LabelOf(i) == i % 2
BatchLabels(kind, b) == [k \in DOMAIN BatchInstances(kind, b) |-> LabelOf(BatchInstances(kind, b)[k])]

\* what the model's forward pass returns for a batch with these batch_labels: a
\* dictionary with a predicted class per instance and a "loss" entry. The model
\* either predicts every label and reports the low loss, or predicts the other
\* class throughout and reports the high loss; a model may leave "loss" out.
Wrong(batch_labels) == [k \in DOMAIN batch_labels |-> 1 - batch_labels[k]]
ForwardOutputs(batch_labels) ==
    {[loss |-> 1, preds |-> batch_labels], [loss |-> 2, preds |-> Wrong(batch_labels)]}
ForwardOutputsWithoutLoss(batch_labels) ==
    {[preds |-> Wrong(batch_labels)]}
\* in training the model either learns the batch or returns no "loss" entry
TrainOutputs(batch_labels) ==
    {[loss |-> 1, preds |-> batch_labels]} \cup ForwardOutputsWithoutLoss(batch_labels)

(***************************************************************************)
(* LossMeter (sciwing.meters.loss_meter)                                   *)
(***************************************************************************)
LossMeterReset == [sum |-> 0, count |-> 0]
AddLoss(meter, loss, n) == [sum |-> meter.sum + loss * n, count |-> meter.count + n]
\* the average of an empty meter is Python's None
NoAverage == [none |-> TRUE]
GetAverage(meter) == IF meter.count = 0 THEN NoAverage ELSE Frac(meter.sum, meter.count)

(***************************************************************************)
(* Metric accumulator (BaseMetric / PrecisionRecallFMeasure): confusion    *)
(* counts, from which the per-class tp / fp / fn counts are read           *)
(***************************************************************************)
MetricReset == [tp \in Classes \X Classes |-> 0]
RECURSIVE CalcMetric(_, _, _)
CalcMetric(acc, batch_labels, preds) ==
    IF batch_labels = <<>> THEN acc
    ELSE CalcMetric([acc EXCEPT ![<<Head(batch_labels), Head(preds)>>] = @ + 1],
                    Tail(batch_labels), Tail(preds))
Other(c) == 1 - c
TP(acc, c) == acc[<<c, c>>]
FP(acc, c) == acc[<<Other(c), c>>]
FN(acc, c) == acc[<<c, Other(c)>>]
FDen(acc, c) == 2 * TP(acc, c) + FP(acc, c) + FN(acc, c)
ClassFscore(acc, c) == IF FDen(acc, c) = 0 THEN Zero ELSE Frac(2 * TP(acc, c), FDen(acc, c))
MacroFscore(acc) ==
    Frac(ClassFscore(acc, 0).num * ClassFscore(acc, 1).den
           + ClassFscore(acc, 1).num * ClassFscore(acc, 0).den,
         2 * ClassFscore(acc, 0).den * ClassFscore(acc, 1).den)
MicroFscore(acc) ==
    IF FDen(acc, 0) + FDen(acc, 1) = 0 THEN Zero
    ELSE Frac(2 * (TP(acc, 0) + TP(acc, 1)), FDen(acc, 0) + FDen(acc, 1))
GetMetric(acc) == [macro_fscore |-> MacroFscore(acc), micro_fscore |-> MicroFscore(acc)]

(***************************************************************************)
(* Files of save_dir                                                       *)
(***************************************************************************)
BestModelFile == "best_model.pt"
\* f"model_epoch_{epoch_num+1}.pt"
EpochFile(e) == "model_epoch_" \o ToString(e + 1) \o ".pt"
\* torch.save(obj, name)
TorchSave(fs, name, obj) ==
    [f \in DOMAIN fs \cup {name} |-> IF f = name THEN obj ELSE fs[f]]

\* a checkpoint written without the optimizer state
MutCheckpoint(e, average_loss) ==
    [epoch_num |-> e, model_state |-> model, loss |-> average_loss]

\* the record both torch.save calls of the Engine write
Checkpoint(e, average_loss) ==
    [epoch_num |-> e, optimizer_state |-> optimizer, model_state |-> model,
     loss |-> average_loss]

(***************************************************************************)
(* Engine                                                                  *)
(***************************************************************************)
\* engine.py 185-191, called from __init__ with None
InitialBestTrackValue(mode) == IF mode = "loss" THEN Inf ELSE Zero

\* the comparison of the loss mode turned around
MutIsBestLower(current_best) == Less(best_track_value, current_best)

\* engine.py 179-180
is_best_lower(current_best) == Less(current_best, best_track_value)
\* engine.py 182-183
is_best_higher(current_best) == GreaterEq(current_best, best_track_value)

InitEngine ==
    /\ track_for_best \in TrackModes
    /\ num_epochs \in 0..MaxEpochs
    /\ save_every \in SaveEveryChoices
    /\ log_train_metrics_every \in LogEveryChoices
    /\ batch_size \in BatchSizes
    /\ pc = "start"
    /\ run_epoch_num = -1
    /\ epoch_num = -1
    /\ model = 0
    /\ model_mode = "train"
    /\ optimizer = 0
    /\ batch_iter = 0
    /\ num_iterations = 0
    /\ train_loss_meter = LossMeterReset
    /\ validation_loss_meter = LossMeterReset
    /\ train_metric_calc = MetricReset
    /\ validation_metric_calc = MetricReset
    /\ test_metric_calc = MetricReset
    /\ best_track_value = InitialBestTrackValue(track_for_best)
    /\ files = [f \in {} |-> None]
    /\ printed = <<>>
    /\ calls = 0
    /\ inf_model = None
    /\ inf_loss_value = None
    /\ inf_file = None
    /\ seen = MetricReset
    /\ consumed = <<>>
    /\ model_forward_out = <<>>
    /\ log = <<>>
    /\ history = <<>>

\* train_epoch, lines 211-218: refresh everything before training begins
train_epoch(e) ==
    /\ epoch_num' = e
    /\ num_iterations' = 0
    /\ batch_iter' = 0
    /\ train_loss_meter' = LossMeterReset
    /\ train_metric_calc' = MetricReset
    /\ model_mode' = "train"
    /\ printed' = <<>>
    /\ pc' = "train"
    /\ seen' = MetricReset
    /\ consumed' = <<>>
    /\ log' = Append(log, <<"train_epoch", e>>)
    /\ UNCHANGED <<iavars, dsvars, cfgvars, model_forward_out, model, optimizer, validation_loss_meter,
                   validation_metric_calc, test_metric_calc, best_track_value,
                   files, infvars, history>>

\* the report of line 251-253, after num_iterations was advanced to n
TrainReport(n) ==
    IF (n + 1) % log_train_metrics_every = 0 THEN <<[report |-> n]>> ELSE <<>>

\* the counter advanced inside the try block, so a batch without a loss is not counted
MutTrainBatch ==
    /\ pc = "train"
    /\ batch_iter < NumBatches("train")
    /\ \E out \in TrainOutputs(BatchLabels("train", batch_iter)) :
        LET batch_labels == BatchLabels("train", batch_iter)
            n == Len(batch_labels)
        IN  /\ train_metric_calc' = CalcMetric(train_metric_calc, batch_labels, out.preds)
            /\ seen' = CalcMetric(seen, batch_labels, out.preds)
            /\ model_forward_out' = out
            /\ IF "loss" \in DOMAIN out
               THEN /\ optimizer' = optimizer + 1
                    /\ model' = optimizer + 1
                    /\ train_loss_meter' = AddLoss(train_loss_meter, out.loss, n)
                    /\ printed' = printed \o TrainReport(num_iterations + 1)
                    /\ num_iterations' = num_iterations + 1
               ELSE /\ UNCHANGED <<optimizer, model, train_loss_meter>>
                    /\ printed' = printed \o <<[fail |-> num_iterations]>>
                    /\ UNCHANGED num_iterations
    /\ consumed' = Append(consumed, batch_iter)
    /\ batch_iter' = batch_iter + 1
    /\ UNCHANGED <<iavars, dsvars, cfgvars, pc, run_epoch_num, epoch_num, model_mode,
                   validation_loss_meter, validation_metric_calc, test_metric_calc,
                   best_track_value, files, calls, infvars, log, history>>

\* train_epoch, lines 220-253: one pass of the while loop with a batch
train_batch ==
    /\ pc = "train"
    /\ batch_iter < NumBatches("train")
    /\ \E out \in TrainOutputs(BatchLabels("train", batch_iter)) :
        LET batch_labels == BatchLabels("train", batch_iter)
            n == Len(batch_labels)
        IN  /\ train_metric_calc' = CalcMetric(train_metric_calc, batch_labels, out.preds)
            /\ seen' = CalcMetric(seen, batch_labels, out.preds)
            /\ model_forward_out' = out
            /\ IF "loss" \in DOMAIN out
               THEN /\ optimizer' = optimizer + 1
                    /\ model' = optimizer + 1
                    /\ train_loss_meter' = AddLoss(train_loss_meter, out.loss, n)
                    /\ printed' = printed \o TrainReport(num_iterations + 1)
               ELSE /\ UNCHANGED <<optimizer, model, train_loss_meter>>
                    /\ printed' = printed \o <<[fail |-> num_iterations]>>
                                          \o TrainReport(num_iterations + 1)
    /\ num_iterations' = num_iterations + 1
    /\ consumed' = Append(consumed, batch_iter)
    /\ batch_iter' = batch_iter + 1
    /\ UNCHANGED <<iavars, dsvars, cfgvars, pc, run_epoch_num, epoch_num, model_mode,
                   validation_loss_meter, validation_metric_calc, test_metric_calc,
                   best_track_value, files, calls, infvars, log, history>>

\* the save interval tested on the 0-based epoch number
MutSavePeriodic(e, average_loss) ==
    IF e % save_every = 0
    THEN TorchSave(files, EpochFile(e), Checkpoint(e, average_loss))
    ELSE files

\* train_epoch_end, lines 270-300 (the torch.save of 284-293)
SavePeriodic(e, average_loss) ==
    IF (e + 1) % save_every = 0
    THEN TorchSave(files, EpochFile(e), Checkpoint(e, average_loss))
    ELSE files

\* train_epoch, lines 254-256: StopIteration, train_epoch_end(epoch_num)
train_epoch_end ==
    /\ pc = "train"
    /\ batch_iter = NumBatches("train")
    /\ files' = SavePeriodic(epoch_num, GetAverage(train_loss_meter))
    /\ pc' = "train_done"
    /\ log' = Append(log, <<"train_epoch_end", epoch_num, consumed>>)
    /\ UNCHANGED <<iavars, dsvars, cfgvars, model_forward_out, run_epoch_num, epoch_num, model, model_mode, optimizer,
                   batch_iter, num_iterations, metervars, metricvars,
                   best_track_value, printed, calls, infvars, seen, consumed, history>>

\* validation_epoch, lines 303-306
validation_epoch(e) ==
    /\ epoch_num' = e
    /\ model_mode' = "eval"
    /\ batch_iter' = 0
    /\ validation_loss_meter' = LossMeterReset
    /\ validation_metric_calc' = MetricReset
    /\ pc' = "valid"
    /\ seen' = MetricReset
    /\ consumed' = <<>>
    /\ log' = Append(log, <<"validation_epoch", e>>)
    /\ UNCHANGED <<iavars, dsvars, cfgvars, model_forward_out, model, optimizer, num_iterations, train_loss_meter,
                   train_metric_calc, test_metric_calc, best_track_value, files,
                   printed, infvars, history>>

\* validation_epoch, lines 308-323: one pass of the while loop with a batch
validation_batch ==
    /\ pc = "valid"
    /\ batch_iter < NumBatches("validation")
    /\ \E out \in ForwardOutputs(BatchLabels("validation", batch_iter)) :
        LET batch_labels == BatchLabels("validation", batch_iter)
        IN  /\ validation_loss_meter' = AddLoss(validation_loss_meter, out.loss, Len(batch_labels))
            /\ validation_metric_calc' = CalcMetric(validation_metric_calc, batch_labels, out.preds)
            /\ seen' = CalcMetric(seen, batch_labels, out.preds)
            /\ model_forward_out' = out
    /\ consumed' = Append(consumed, batch_iter)
    /\ batch_iter' = batch_iter + 1
    /\ UNCHANGED <<iavars, dsvars, cfgvars, pc, run_epoch_num, epoch_num, model, model_mode, optimizer,
                   num_iterations, train_loss_meter, train_metric_calc, test_metric_calc,
                   best_track_value, files, printed, calls, infvars, log, history>>

\* validation_epoch_end, lines 357-369: the value tracked and whether it is the best
ValueTracked(average_loss) ==
    IF track_for_best = "loss" THEN average_loss
    ELSE GetMetric(validation_metric_calc)[track_for_best]
IsBest(average_loss) ==
    IF track_for_best = "loss" THEN is_best_lower(average_loss)
    ELSE is_best_higher(ValueTracked(average_loss))

\* validation_epoch, lines 324-326: StopIteration, validation_epoch_end(epoch_num)
validation_epoch_end ==
    /\ pc = "valid"
    /\ batch_iter = NumBatches("validation")
    /\ LET average_loss == GetAverage(validation_loss_meter)
       IN  /\ IF IsBest(average_loss)
              THEN /\ best_track_value' = ValueTracked(average_loss)
                   /\ files' = TorchSave(files, BestModelFile,
                                         Checkpoint(epoch_num, average_loss))
              ELSE UNCHANGED <<best_track_value, files>>
           /\ history' = Append(history, [epoch_num |-> epoch_num,
                                           value |-> ValueTracked(average_loss),
                                           model |-> model])
    /\ pc' = "valid_done"
    /\ log' = Append(log, <<"validation_epoch_end", epoch_num, consumed>>)
    /\ UNCHANGED <<iavars, dsvars, cfgvars, model_forward_out, run_epoch_num, epoch_num, model, model_mode, optimizer,
                   batch_iter, num_iterations, metervars, metricvars, printed, calls,
                   infvars, seen, consumed>>

\* the checkpoint is read and its parameters are not put into the model
MutLoadModelFromFile(filename) == model

\* load_model_from_file, lines 433-441
load_model_from_file(filename) == files[filename]["model_state"]

\* test_epoch, lines 385-388; torch.load raises when best_model.pt does not exist
test_epoch(e) ==
    /\ epoch_num' = e
    /\ IF BestModelFile \in DOMAIN files
       THEN /\ model' = load_model_from_file(BestModelFile)
            /\ model_mode' = "eval"
            /\ batch_iter' = 0
            /\ pc' = "test"
            /\ seen' = MetricReset
            /\ consumed' = <<>>
            /\ log' = Append(log, <<"test_epoch", e>>)
       ELSE /\ pc' = "raised"
            /\ UNCHANGED <<model, model_mode, batch_iter, seen, consumed, log>>
    /\ UNCHANGED <<iavars, dsvars, cfgvars, model_forward_out, optimizer, num_iterations, metervars, metricvars,
                   best_track_value, files, printed, infvars, history>>

\* test_epoch, lines 389-400: one pass of the while loop with a batch
test_batch ==
    /\ pc = "test"
    /\ batch_iter < NumBatches("test")
    /\ \E out \in ForwardOutputs(BatchLabels("test", batch_iter)) :
        LET batch_labels == BatchLabels("test", batch_iter)
        IN  /\ test_metric_calc' = CalcMetric(test_metric_calc, batch_labels, out.preds)
            /\ seen' = CalcMetric(seen, batch_labels, out.preds)
            /\ model_forward_out' = out
    /\ consumed' = Append(consumed, batch_iter)
    /\ batch_iter' = batch_iter + 1
    /\ UNCHANGED <<iavars, dsvars, cfgvars, pc, run_epoch_num, epoch_num, model, model_mode, optimizer,
                   num_iterations, metervars, train_metric_calc, validation_metric_calc,
                   best_track_value, files, printed, calls, infvars, log, history>>

\* test_epoch, lines 401-403: StopIteration, test_epoch_end(epoch_num)
test_epoch_end ==
    /\ pc = "test"
    /\ batch_iter = NumBatches("test")
    /\ pc' = "test_done"
    /\ log' = Append(log, <<"test_epoch_end", epoch_num, consumed>>)
    /\ UNCHANGED <<iavars, dsvars, cfgvars, model_forward_out, run_epoch_num, epoch_num, model, model_mode, optimizer,
                   batch_iter, num_iterations, metervars, metricvars, best_track_value,
                   files, printed, calls, infvars, seen, consumed, history>>

(***************************************************************************)
(* Engine.run, lines 198-202                                               *)
(***************************************************************************)
run_train_epoch ==
    /\ pc \in {"start", "valid_done"}
    /\ run_epoch_num + 1 < num_epochs
    /\ run_epoch_num' = run_epoch_num + 1
    /\ train_epoch(run_epoch_num + 1)
    /\ UNCHANGED calls

\* the validation epoch started with the number of the next epoch
MutRunValidationEpoch ==
    /\ pc = "train_done"
    /\ validation_epoch(run_epoch_num + 1)
    /\ UNCHANGED <<run_epoch_num, calls>>

run_validation_epoch ==
    /\ pc = "train_done"
    /\ validation_epoch(run_epoch_num)
    /\ UNCHANGED <<run_epoch_num, calls>>

run_test_epoch ==
    /\ pc \in {"start", "valid_done"}
    /\ run_epoch_num + 1 >= num_epochs
    /\ IF run_epoch_num = -1
       THEN \* the loop body never ran: epoch_num is unbound in test_epoch(epoch_num)
            /\ pc' = "raised"
            /\ UNCHANGED <<iavars, dsvars, cfgvars, model_forward_out, run_epoch_num, epoch_num, model, model_mode,
                           optimizer, batch_iter, num_iterations, metervars, metricvars,
                           best_track_value, files, printed, calls, infvars, seen,
                           consumed, log, history>>
       ELSE /\ test_epoch(run_epoch_num)
            /\ UNCHANGED <<run_epoch_num, calls>>

(***************************************************************************)
(* ParsectInference.load_model, parsect_inference.py 95-103, on a file of  *)
(* the save directory after the run has returned                           *)
(***************************************************************************)
LoadModel(model_chkpoint) ==
    [model |-> model_chkpoint["model_state"], loss_value |-> model_chkpoint["loss"]]

inference_load_model ==
    /\ pc = "test_done"
    /\ inf_file = None
    /\ \E model_filepath \in DOMAIN files :
        /\ inf_file' = model_filepath
        /\ inf_model' = LoadModel(files[model_filepath]).model
        /\ inf_loss_value' = LoadModel(files[model_filepath]).loss_value
    /\ UNCHANGED <<iavars, dsvars, cfgvars, model_forward_out, pc, run_epoch_num, epoch_num, model, model_mode, optimizer,
                   batch_iter, num_iterations, metervars, metricvars, best_track_value,
                   files, printed, calls, seen, consumed, log, history>>

(***************************************************************************)
(* The public epoch methods called directly, in any order                  *)
(***************************************************************************)
Returned == {"start", "train_done", "valid_done", "test_done", "raised"}

call_train_epoch ==
    /\ pc \in Returned
    /\ calls < MaxCalls
    /\ calls' = calls + 1
    /\ \E e \in 0..(MaxEpochs - 1) : train_epoch(e)
    /\ UNCHANGED run_epoch_num

call_validation_epoch ==
    /\ pc \in Returned
    /\ calls < MaxCalls
    /\ calls' = calls + 1
    /\ \E e \in 0..(MaxEpochs - 1) : validation_epoch(e)
    /\ UNCHANGED run_epoch_num

call_test_epoch ==
    /\ pc \in Returned
    /\ calls < MaxCalls
    /\ calls' = calls + 1
    /\ \E e \in 0..(MaxEpochs - 1) : test_epoch(e)
    /\ UNCHANGED run_epoch_num

(***************************************************************************)
(* ParsectDataset                                                          *)
(***************************************************************************)
\* largest number of records of the label file
MaxRecords == 2
\* the largest test set whose columns get_misclassified_sentences is asked about
MaxTestInstances == 3

\* an absent value is the empty sequence, a present one a sequence of one
Absent == <<>>
Some(x) == <<x>>
Get(o) == o[1]

\* file numbers at both ends of the three splits and outside them
FileNos == {0, 1, 20, 21, 30, 31, 40, 41}
\* the lines of the label file: text and label
Payloads == {[text |-> "abstract", label |-> "sectionHeader"],
             [text |-> "we propose we show", label |-> "bodyText"]}
Records == {[file_no |-> f, text |-> p.text, label |-> p.label] :
               f \in FileNos, p \in Payloads}
LabelFiles == UNION {[1..n -> Records] : n \in 0..MaxRecords}
DatasetTypes == {"train", "valid", "test", "dev"}
MaxLengthChoices == {2, 3, 4}
MaxNumWordsChoices == {2}
\* debug_dataset_proportion = 0.75, as numerator and denominator
DebugProportion == <<3, 4>>

\* parsect_dataset.py 33-36: the default special tokens
start_token == "<SOS>"
end_token == "<EOS>"
pad_token == "<PAD>"
unk_token == "<UNK>"

\* get_label_mapping, lines 218-246
Categories ==
    <<"address", "affiliation", "author", "bodyText", "category", "construct",
      "copyright", "email", "equation", "figure", "figureCaption", "footnote",
      "keyword", "listItem", "note", "page", "reference", "sectionHeader",
      "subsectionHeader", "subsubsectionHeader", "tableCaption", "table", "title">>
label_mapping == [c \in {Categories[k] : k \in DOMAIN Categories} |->
                     (CHOOSE k \in DOMAIN Categories : Categories[k] = c) - 1]

\* line 91
allowable_dataset_types == {"train", "valid", "test"}
\* the constructor without its assert
MutAssertDatasetType(type) == TRUE

\* the condition of the assert of lines 96-99
AssertDatasetType(type) == type \in allowable_dataset_types

\* Python's range(a, b)
Range(a, b) == a..(b - 1)
\* the upper ends of the ranges taken as inclusive
MutSplitRange(type) ==
    IF type = "train" THEN 1..21
    ELSE IF type = "valid" THEN 21..31
    ELSE 31..41

\* get_lines_labels, lines 162-178: the file numbers each dataset type keeps
SplitRange(type) ==
    IF type = "train" THEN Range(1, 21)
    ELSE IF type = "valid" THEN Range(21, 31)
    ELSE Range(31, 41)
\* lines 159-186: the filter, then texts and labels in the order of the records
FilterSplit(records, type) ==
    IF type \in {"train", "valid", "test"}
    THEN SelectSeq(records, LAMBDA json_line : json_line.file_no \in SplitRange(type))
    ELSE records
Texts(records) == [k \in DOMAIN records |-> records[k].text]
Labels(records) == [k \in DOMAIN records |-> records[k].label]

\* int(debug_dataset_proportion * num_text)
SampleSize(num_text) == (DebugProportion[1] * num_text) \div DebugProportion[2]
\* np.random.randint(low, high): the integers it can return, low <= x < high
RandintValues(low, high) == low..(high - 1)
\* lines 192-194: the indices the sample can hold
SampleSpace(num_text) == RandintValues(0, num_text - 1)
\* lines 196-202: texts[random_int] / labels[random_int] (0-based indices)
Sample(seq, ints) == [k \in DOMAIN ints |-> seq[ints[k] + 1]]

\* WordTokenizer.tokenize: the words of a line
WordTokenize(text) ==
    IF text = "abstract" THEN <<"abstract">>
    ELSE <<"we", "propose", "we", "show">>
\* tokenize, lines 208-215
Tokenize(ls) == [k \in DOMAIN ls |-> WordTokenize(ls[k])]

\* " ".join(tokens)
RECURSIVE Join(_)
Join(tokens) ==
    IF tokens = <<>> THEN ""
    ELSE IF Len(tokens) = 1 THEN tokens[1]
    ELSE tokens[1] \o " " \o Join(Tail(tokens))

\* Vocab.build_vocab: the special tokens first, then the max_num_words most
\* frequent words, the more frequent first (ties: the one met first)
RECURSIVE Flatten(_)
Flatten(insts) == IF insts = <<>> THEN <<>> ELSE Head(insts) \o Flatten(Tail(insts))
Count(w, seq) == Cardinality({k \in DOMAIN seq : seq[k] = w})
FirstPos(w, seq) == CHOOSE k \in DOMAIN seq : seq[k] = w /\ \A j \in 1..(k - 1) : seq[j] # w
Before(w1, w2, seq) ==
    \/ Count(w1, seq) > Count(w2, seq)
    \/ Count(w1, seq) = Count(w2, seq) /\ FirstPos(w1, seq) < FirstPos(w2, seq)
RECURSIVE ByFrequency(_, _)
ByFrequency(words, seq) ==
    IF words = {} THEN <<>>
    ELSE LET w == CHOOSE x \in words : \A y \in words \ {x} : Before(x, y, seq)
         IN  <<w>> \o ByFrequency(words \ {w}, seq)
SpecialTokens == <<pad_token, start_token, end_token, unk_token>>
BuildVocab(insts, max_words) ==
    LET seq == Flatten(insts)
        ranked == ByFrequency({seq[k] : k \in DOMAIN seq}, seq)
        kept == SubSeq(ranked, 1, Min(max_words, Len(ranked)))
        all == SpecialTokens \o kept
    IN  [t \in {all[k] : k \in DOMAIN all} |-> (CHOOSE k \in DOMAIN all : all[k] = t) - 1]

\* Numericalizer.numericalize_instance: the index of every token, the index of
\* the unknown token for a word the vocabulary does not hold
NumericalizeInstance(voc, tokens) ==
    [k \in DOMAIN tokens |-> IF tokens[k] \in DOMAIN voc THEN voc[tokens[k]] ELSE voc[unk_token]]

\* pack_to_length with add_start_end_token=True: cut to max_length - 2 tokens,
\* put the start and end tokens around them, fill up with the pad token
PackToLength(tokenized_text, max_len) ==
    LET cut == SubSeq(tokenized_text, 1, Min(Len(tokenized_text), max_len - 2))
        wrapped == <<start_token>> \o cut \o <<end_token>>
    IN  wrapped \o [k \in 1..(max_len - Len(wrapped)) |-> pad_token]

\* the sentence numericalized as it is, not the packed one
MutGetItem(idx) ==
    LET instance == instances[idx + 1]
        label == labels[idx + 1]
        label_idx == label_mapping[label]
        len_instance == Len(instance)
        padded_instance == PackToLength(instance, max_length)
        tokens == NumericalizeInstance(Get(vocab), instance)
    IN  [tokens |-> tokens,
         len_tokens |-> <<len_instance>>,
         label |-> <<label_idx>>,
         instance |-> Join(padded_instance),
         raw_instance |-> Join(instance)]

\* __getitem__, lines 124-152
GetItem(idx) ==
    LET instance == instances[idx + 1]
        label == labels[idx + 1]
        label_idx == label_mapping[label]
        len_instance == Len(instance)
        padded_instance == PackToLength(instance, max_length)
        tokens == NumericalizeInstance(Get(vocab), padded_instance)
    IN  [tokens |-> tokens,
         len_tokens |-> <<len_instance>>,
         label |-> <<label_idx>>,
         instance |-> Join(padded_instance),
         raw_instance |-> Join(instance)]

\* line 88: the class name of a label index
idx2classname == [i \in 0..(Len(Categories) - 1) |-> Categories[i + 1]]
\* get_class_names_from_indices, lines 251-252
get_class_names_from_indices(indices) == [k \in DOMAIN indices |-> idx2classname[indices[k]]]
\* Vocab.get_token_from_idx: the token the vocabulary gives this index
TokenFromIdx(voc, idx) == CHOOSE t \in DOMAIN voc : voc[t] = idx
\* get_disp_sentence_from_indices, lines 254-262: the tokens of the indices
\* that are not the padding index, joined by blanks
get_disp_sentence_from_indices(indices) ==
    LET kept == SelectSeq(indices, LAMBDA idx : idx # Get(vocab)[pad_token])
    IN  Join([k \in DOMAIN kept |-> TokenFromIdx(Get(vocab), kept[k])])

InitDataset ==
    /\ secthead_label_file \in LabelFiles
    /\ dataset_type \in DatasetTypes
    /\ max_num_words \in MaxNumWordsChoices
    /\ max_length \in MaxLengthChoices
    /\ debug \in BOOLEAN
    /\ ds_pc = "new"
    /\ parsect_json = Absent
    /\ lines = <<>>
    /\ labels = <<>>
    /\ instances = <<>>
    /\ vocab = Absent
    /\ random_ints = <<>>
    /\ item = Absent

\* __init__, lines 94-99: the divider is printed, then the assert
ds_assert ==
    /\ ds_pc = "new"
    /\ ds_pc' = IF AssertDatasetType(dataset_type) THEN "asserted" ELSE "AssertionError"
    /\ UNCHANGED <<iavars, enginevars, dsargs, parsect_json, lines, labels, instances, vocab,
                   random_ints, item>>

\* __init__, line 101: convert_sectlabel_to_json reads the label file
ds_read_label_file ==
    /\ ds_pc = "asserted"
    /\ parsect_json' = Some([parse_sect |-> secthead_label_file])
    /\ ds_pc' = "json"
    /\ UNCHANGED <<iavars, enginevars, dsargs, lines, labels, instances, vocab, random_ints, item>>

\* __init__, line 102: get_lines_labels, lines 154-206
get_lines_labels ==
    /\ ds_pc = "json"
    /\ LET split == FilterSplit(Get(parsect_json).parse_sect, dataset_type)
           texts == Texts(split)
           labs == Labels(split)
           num_text == Len(texts)
       IN  IF ~debug
           THEN /\ lines' = texts
                /\ labels' = labs
                /\ ds_pc' = "lines"
                /\ UNCHANGED random_ints
           ELSE IF SampleSpace(num_text) = {}
                THEN \* low >= high with size 0: numpy raises ValueError or, in
                     \* other releases, returns the empty array
                     \/ /\ ds_pc' = "ValueError"
                        /\ UNCHANGED <<lines, labels, random_ints>>
                     \/ /\ SampleSize(num_text) = 0
                        /\ lines' = <<>>
                        /\ labels' = <<>>
                        /\ ds_pc' = "lines"
                        /\ UNCHANGED random_ints
                ELSE \E ints \in [1..SampleSize(num_text) -> SampleSpace(num_text)] :
                        /\ random_ints' = ints
                        /\ lines' = Sample(texts, ints)
                        /\ labels' = Sample(labs, ints)
                        /\ ds_pc' = "lines"
    /\ UNCHANGED <<iavars, enginevars, dsargs, parsect_json, instances, vocab, item>>

\* __init__, line 103
ds_tokenize ==
    /\ ds_pc = "lines"
    /\ instances' = Tokenize(lines)
    /\ ds_pc' = "tokenized"
    /\ UNCHANGED <<iavars, enginevars, dsargs, parsect_json, lines, labels, vocab, random_ints, item>>

\* __init__, lines 105-119: the vocabulary is built and stored
ds_build_vocab ==
    /\ ds_pc = "tokenized"
    /\ vocab' = Some(BuildVocab(instances, max_num_words))
    /\ ds_pc' = "ready"
    /\ UNCHANGED <<iavars, enginevars, dsargs, parsect_json, lines, labels, instances,
                   random_ints, item>>

\* dataset[idx] for an index of the dataset
getitem ==
    /\ ds_pc = "ready"
    /\ \E idx \in 0..(Len(instances) - 1) : item' = Some([idx |-> idx, dict |-> GetItem(idx)])
    /\ UNCHANGED <<iavars, enginevars, dsargs, ds_pc, parsect_json, lines, labels, instances,
                   vocab, random_ints>>

(***************************************************************************)
(* ParsectInference, parsect_inference.py                                  *)
(***************************************************************************)
InferenceBatchSizes == {1, 2}
\* what torch.load(model_filepath) returns: a checkpoint an Engine has written
SavedCheckpoints ==
    {[epoch_num |-> 0, optimizer_state |-> m, model_state |-> m, loss |-> Frac(m, 1)] :
        m \in {1, 2}}
\* the fields of the Engine, which the inference client does not touch
enginestate == <<cfgvars, pc, run_epoch_num, epoch_num, model, model_mode, optimizer,
                 batch_iter, num_iterations, metervars, metricvars, best_track_value,
                 files, printed, calls, seen, consumed, model_forward_out, log, history>>

\* the columns of run_inference, lines 110-114, all empty
NoAnalytics ==
    [true_labels_indices |-> <<>>, predicted_labels_indices |-> <<>>,
     pred_class_names |-> <<>>, true_class_names |-> <<>>, sentences |-> <<>>]

\* no ParsectInference is constructed
NoInference ==
    /\ inf_pc = "none"
    /\ inf_batch_size = 1
    /\ inf_batch_iter = 0
    /\ output_analytics = NoAnalytics
    /\ output_df = <<>>
    /\ misclassified = Absent

\* __init__, lines 49-70: the configuration is read, get_test_dataset begins
InitInference ==
    /\ inf_pc = "new"
    /\ inf_batch_size \in InferenceBatchSizes
    /\ inf_batch_iter = 0
    /\ output_analytics = NoAnalytics
    /\ output_df = <<>>
    /\ misclassified = Absent

\* __init__, lines 70-71: get_test_dataset has returned the dataset, load_model
load_model ==
    /\ inf_pc = "new"
    /\ ds_pc = "ready"
    /\ \E model_chkpoint \in SavedCheckpoints :
        /\ inf_model' = LoadModel(model_chkpoint).model
        /\ inf_loss_value' = LoadModel(model_chkpoint).loss_value
    /\ inf_file' = BestModelFile
    /\ inf_pc' = "loaded"
    /\ UNCHANGED <<enginestate, dsvars, inf_batch_size, inf_batch_iter, output_analytics,
                   output_df, misclassified>>

\* run_inference, lines 107-116: the loader and the empty lists
run_inference ==
    /\ inf_pc = "loaded"
    /\ inf_batch_iter' = 0
    /\ output_analytics' = NoAnalytics
    /\ inf_pc' = "running"
    /\ UNCHANGED <<enginevars, dsvars, inf_batch_size, output_df, misclassified>>

\* DataLoader(test_dataset, batch_size, shuffle=False), lines 107-109
LoaderNumBatches == (Len(instances) + inf_batch_size - 1) \div inf_batch_size
\* the instances (0-based) of batch b (0-based), in dataset order
LoaderBatch(b) ==
    [k \in 1..Min(inf_batch_size, Len(instances) - b * inf_batch_size) |->
        b * inf_batch_size + k - 1]
\* the default collate function on the dictionaries __getitem__ returns: one
\* dictionary with the same keys, each holding the values of the batch
Collate(items) == [key \in DOMAIN items[1] |-> [k \in DOMAIN items |-> items[k][key]]]
\* "for tokens, labels, len_tokens in loader", line 118: the batch is iterated
\* and must yield three values; a dictionary yields its keys
CanUnpackThree(batch) == Cardinality(DOMAIN batch) = 3

\* run_inference, lines 118-149: one pass of the for loop. The batch is a
\* dictionary of five keys, so the unpacking raises ValueError; were there
\* three keys the names would hold the key strings and line 119 would raise
\* AttributeError. Lines 120-149 are never reached.
run_inference_batch ==
    /\ inf_pc = "running"
    /\ inf_batch_iter < LoaderNumBatches
    /\ LET idxs == LoaderBatch(inf_batch_iter)
           batch == Collate([k \in DOMAIN idxs |-> GetItem(idxs[k])])
       IN  inf_pc' = IF CanUnpackThree(batch) THEN "AttributeError" ELSE "ValueError"
    /\ inf_batch_iter' = inf_batch_iter + 1
    /\ UNCHANGED <<enginevars, dsvars, inf_batch_size, output_analytics, output_df,
                   misclassified>>

\* run_inference, lines 151-162: the loader is exhausted; torch.cat raises on
\* an empty list of tensors
run_inference_end ==
    /\ inf_pc = "running"
    /\ inf_batch_iter = LoaderNumBatches
    /\ inf_pc' = IF inf_batch_iter = 0 THEN "RuntimeError" ELSE "inferred"
    /\ UNCHANGED <<enginevars, dsvars, inf_batch_size, inf_batch_iter, output_analytics,
                   output_df, misclassified>>

\* __init__, lines 73-79: the data frame of the columns, row i (index i - 1)
\* from position i of every column
DataFrame(columns) ==
    [i \in DOMAIN columns.sentences |-> [c \in DOMAIN columns |-> columns[c][i]]]

build_output_df ==
    /\ inf_pc = "inferred"
    /\ output_df' = DataFrame(output_analytics)
    /\ inf_pc' = "constructed"
    /\ UNCHANGED <<enginevars, dsvars, inf_batch_size, inf_batch_iter, output_analytics,
                   misclassified>>

\* both tests joined by "or"
MutGetMisclassifiedSentences(true_label_idx, pred_label_idx) ==
    LET index == [i \in DOMAIN output_df |-> i - 1]
        instances_idx ==
            SelectSeq(index, LAMBDA idx :
                \/ output_df[idx + 1].true_labels_indices \in {true_label_idx}
                \/ output_df[idx + 1].predicted_labels_indices \in {pred_label_idx})
    IN  [k \in DOMAIN instances_idx |-> output_analytics.sentences[instances_idx[k] + 1]]

\* get_misclassified_sentences, lines 164-180
get_misclassified_sentences(true_label_idx, pred_label_idx) ==
    LET index == [i \in DOMAIN output_df |-> i - 1]
        instances_idx ==
            SelectSeq(index, LAMBDA idx :
                /\ output_df[idx + 1].true_labels_indices \in {true_label_idx}
                /\ output_df[idx + 1].predicted_labels_indices \in {pred_label_idx})
    IN  [k \in DOMAIN instances_idx |-> output_analytics.sentences[instances_idx[k] + 1]]

\* the label indices and the display sentences found in the columns
ColumnLabels == {label_mapping["bodyText"], label_mapping["sectionHeader"]}
ColumnSentences == {"<SOS> abstract <EOS>", "<SOS> we propose <EOS>"}
\* the label indices a caller asks about: those of the columns and one more
QueryLabels == ColumnLabels \cup {label_mapping["title"]}

\* a caller asks for the sentences of one (true, predicted) pair
ask_misclassified_sentences ==
    /\ inf_pc = "constructed"
    /\ \E true_label_idx \in QueryLabels, pred_label_idx \in QueryLabels :
        misclassified' = Some([true_label_idx |-> true_label_idx,
                               pred_label_idx |-> pred_label_idx,
                               sentences |-> get_misclassified_sentences(true_label_idx,
                                                                         pred_label_idx)])
    /\ UNCHANGED <<enginevars, dsvars, inf_pc, inf_batch_size, inf_batch_iter,
                   output_analytics, output_df>>

\* the columns run_inference returns (lines 155-160) for n test instances: one
\* entry per instance in every column, the class names those of the indices
Analytics(n) ==
    {[true_labels_indices |-> t,
      predicted_labels_indices |-> p,
      pred_class_names |-> get_class_names_from_indices(p),
      true_class_names |-> get_class_names_from_indices(t),
      sentences |-> snt] :
        t \in [1..n -> ColumnLabels], p \in [1..n -> ColumnLabels],
        snt \in [1..n -> ColumnSentences]}

\* __init__, line 72: run_inference has returned its columns
InitMisclassified ==
    /\ inf_pc = "inferred"
    /\ inf_batch_size = 1
    /\ inf_batch_iter = 0
    /\ \E n \in 0..MaxTestInstances : output_analytics \in Analytics(n)
    /\ output_df = <<>>
    /\ misclassified = Absent

(***************************************************************************)
(* Specifications                                                          *)
(***************************************************************************)
\* no dataset is under construction
NoDataset ==
    /\ secthead_label_file = <<>>
    /\ dataset_type = "train"
    /\ max_num_words = 0
    /\ max_length = 0
    /\ debug = FALSE
    /\ ds_pc = "none"
    /\ parsect_json = Absent
    /\ lines = <<>>
    /\ labels = <<>>
    /\ instances = <<>>
    /\ vocab = Absent
    /\ random_ints = <<>>
    /\ item = Absent

\* an engine that is never run
IdleEngine ==
    /\ InitEngine
    /\ track_for_best = "loss"
    /\ num_epochs = 0
    /\ save_every = 1
    /\ log_train_metrics_every = 1

Init == InitEngine /\ NoDataset /\ NoInference

Next ==
    \/ run_train_epoch
    \/ train_batch
    \/ train_epoch_end
    \/ run_validation_epoch
    \/ validation_batch
    \/ validation_epoch_end
    \/ run_test_epoch
    \/ test_batch
    \/ test_epoch_end
    \/ inference_load_model

Spec == Init /\ [][Next]_vars

InitCalls == InitEngine /\ num_epochs = MaxEpochs /\ NoDataset /\ NoInference

NextCalls ==
    \/ call_train_epoch
    \/ train_batch
    \/ train_epoch_end
    \/ call_validation_epoch
    \/ validation_batch
    \/ validation_epoch_end
    \/ call_test_epoch
    \/ test_batch
    \/ test_epoch_end

SpecCalls == InitCalls /\ [][NextCalls]_vars

NextDataset ==
    \/ ds_assert
    \/ ds_read_label_file
    \/ get_lines_labels
    \/ ds_tokenize
    \/ ds_build_vocab
    \/ getitem

InitDatasetSpec == IdleEngine /\ InitDataset /\ NoInference

SpecDataset == InitDatasetSpec /\ [][NextDataset]_vars

\* ParsectInference.__init__: the test dataset is constructed, the model is
\* loaded and run_inference goes through the test set
NextInference ==
    \/ ds_assert
    \/ ds_read_label_file
    \/ get_lines_labels
    \/ ds_tokenize
    \/ ds_build_vocab
    \/ load_model
    \/ run_inference
    \/ run_inference_batch
    \/ run_inference_end

\* get_test_dataset, lines 83-93, passes dataset_type='test'
InitInferenceSpec == IdleEngine /\ InitDataset /\ dataset_type = "test" /\ InitInference

SpecInference == InitInferenceSpec /\ [][NextInference]_vars

\* get_misclassified_sentences on the data frame of any columns
NextMisclassified ==
    \/ build_output_df
    \/ ask_misclassified_sentences

InitMisclassifiedSpec == IdleEngine /\ NoDataset /\ InitMisclassified

SpecMisclassified == InitMisclassifiedSpec /\ [][NextMisclassified]_vars

(***************************************************************************)
(* Properties                                                              *)
(***************************************************************************)
IsPrefix(s, t) == Len(s) <= Len(t) /\ SubSeq(t, 1, Len(s)) = s
\* train_epoch_end(e) has been executed
TrainEnded(e) == \E k \in DOMAIN log : log[k][1] = "train_epoch_end" /\ log[k][2] = e
PeriodicFiles == DOMAIN files \ {BestModelFile}

\* C1: model_epoch_{e+1}.pt exists exactly when train_epoch_end(e) has run and
\* e+1 is a multiple of save_every; after the N epochs of a run there are
\* floor(N / save_every) periodic checkpoints; the checkpoint of an epoch is on
\* disk while that epoch's validation runs.
C1_PeriodicCheckpoints ==
    /\ \A e \in 0..MaxEpochs :
          ("model_epoch_" \o ToString(e + 1) \o ".pt") \in DOMAIN files
              <=> (TrainEnded(e) /\ (e + 1) % save_every = 0)
    /\ pc \in {"test", "test_done"} =>
          Cardinality(PeriodicFiles) = num_epochs \div save_every
    /\ (pc = "valid" /\ (epoch_num + 1) % save_every = 0) =>
          /\ EpochFile(epoch_num) \in DOMAIN files
          /\ files[EpochFile(epoch_num)].epoch_num = epoch_num
C1_Witness ==
    /\ pc = "test_done"
    /\ num_epochs = 2
    /\ save_every = 2
    /\ PeriodicFiles = {"model_epoch_2.pt"}

\* the tracked value a is strictly better than b
Better(a, b) == IF track_for_best = "loss" THEN Less(a, b) ELSE Less(b, a)

\* C2: at the end of a validation epoch best_model.pt is written if and only if
\* the tracked value improves on the best so far; a value that only equals the
\* best so far leaves best_model.pt alone.
C2_BestWrittenIffImproved ==
    [][(pc = "valid" /\ pc' = "valid_done") =>
          ((files' # files) <=>
               Better(ValueTracked(GetAverage(validation_loss_meter)), best_track_value))]_vars

CheckpointFields == {"epoch_num", "optimizer_state", "model_state", "loss"}

\* C3: every checkpoint file has exactly the fields epoch_num, optimizer_state,
\* model_state and loss; its model_state is the parameters the model had when
\* the file was written; Engine.load_model_from_file and
\* ParsectInference.load_model read those parameters (and the loss) back.
C3_CheckpointRoundTrip ==
    /\ \A f \in DOMAIN files :
          /\ DOMAIN files[f] = CheckpointFields
          /\ \A k \in DOMAIN history :
                history[k].epoch_num = files[f].epoch_num =>
                    files[f].model_state = history[k].model
    /\ pc \in {"test", "test_done"} => model = files[BestModelFile].model_state
    /\ inf_file # None =>
          /\ inf_model = files[inf_file].model_state
          /\ inf_loss_value = files[inf_file].loss
C3_Witness ==
    /\ inf_file = "model_epoch_1.pt"
    /\ BestModelFile \in DOMAIN files
    /\ files[BestModelFile].model_state # inf_model
    /\ inf_model # model

\* C4: at the end of every train_epoch, validation_epoch and test_epoch call the
\* metric accumulator of its kind holds the counts of the batches of that call
\* only, whatever calls came before.
C4_AccumulatorsCountThisCallOnly ==
    /\ pc = "train_done" => train_metric_calc = seen
    /\ pc = "valid_done" => validation_metric_calc = seen
    /\ pc = "test_done" => test_metric_calc = seen

\* the batch indices of one full pass over a dataset
AllBatches(kind) == [k \in 1..NumBatches(kind) |-> k - 1]
RECURSIVE ExpectedEpochs(_)
ExpectedEpochs(n) ==
    IF n = 0 THEN <<>>
    ELSE ExpectedEpochs(n - 1) \o
         << <<"train_epoch", n - 1>>,
            <<"train_epoch_end", n - 1, AllBatches("train")>>,
            <<"validation_epoch", n - 1>>,
            <<"validation_epoch_end", n - 1, AllBatches("validation")>> >>
ExpectedRun(n) ==
    IF n = 0 THEN <<>>
    ELSE ExpectedEpochs(n) \o
         << <<"test_epoch", n - 1>>, <<"test_epoch_end", n - 1, AllBatches("test")>> >>

\* C5: run executes train epoch e then validation epoch e for e = 0..num_epochs-1
\* in increasing order, each over every batch from the first, and then one test
\* epoch; nothing runs out of this order.
C5_RunOrder ==
    /\ IsPrefix(log, ExpectedRun(num_epochs))
    /\ pc = "test_done" => log = ExpectedRun(num_epochs)
C5_Witness ==
    /\ pc = "test_done"
    /\ num_epochs = 2
    /\ Len(log) = 10

\* C6: during the test epoch the model has the parameters of best_model.pt,
\* which are those at the end of a validation epoch whose tracked value no
\* other epoch of the run beats, and best_model.pt carries that epoch's number.
C6_TestUsesBestModel ==
    pc \in {"test", "test_done"} =>
        \E k \in DOMAIN history :
            /\ \A j \in DOMAIN history : ~Better(history[j].value, history[k].value)
            /\ model = history[k].model
            /\ files[BestModelFile].model_state = history[k].model
            /\ files[BestModelFile].epoch_num = history[k].epoch_num
C6_Witness ==
    /\ pc = "test"
    /\ num_epochs = 2
    /\ files[BestModelFile].epoch_num = 0
    /\ model # optimizer


\* the index the vocabulary gives a token
IndexOf(voc, token) == IF token \in DOMAIN voc THEN voc[token] ELSE voc[unk_token]

\* C7: __getitem__ returns max_length token ids: the id of the start token,
\* the ids of the first words of the sentence (at most max_length - 2), the id
\* of the end token, and the id of the pad token in the places left.
C7_TokensHaveMaxLength ==
    item # Absent =>
        LET tokens == Get(item).dict.tokens
            sentence == instances[Get(item).idx + 1]
            m == Min(Len(sentence), max_length - 2)
        IN  /\ Len(tokens) = max_length
            /\ \A k \in 1..max_length :
                  tokens[k] = IF k = 1 THEN Get(vocab)[start_token]
                              ELSE IF k <= m + 1 THEN IndexOf(Get(vocab), sentence[k - 1])
                              ELSE IF k = m + 2 THEN Get(vocab)[end_token]
                              ELSE Get(vocab)[pad_token]
\* a sentence longer than max_length was cut
C7_Witness ==
    /\ item # Absent
    /\ Len(instances[Get(item).idx + 1]) > max_length
    /\ Len(Get(item).dict.tokens) = max_length

\* C8: with a dataset_type other than train, valid and test the constructor
\* stops at the assertion with nothing read, tokenized or built; with one of
\* the three the assertion passes.
C8_BadDatasetTypeFailsFirst ==
    /\ dataset_type \notin {"train", "valid", "test"} =>
          /\ ds_pc \in {"new", "AssertionError"}
          /\ parsect_json = Absent
          /\ lines = <<>> /\ labels = <<>> /\ instances = <<>>
          /\ vocab = Absent
    /\ dataset_type \in {"train", "valid", "test"} => ds_pc # "AssertionError"
C8_Witness ==
    /\ ds_pc = "AssertionError"
    /\ dataset_type = "dev"
    /\ Len(secthead_label_file) = MaxRecords

\* the file numbers of the three splits, as claimed
ClaimedSplit(type) ==
    IF type = "train" THEN 1..20 ELSE IF type = "valid" THEN 21..30 ELSE 31..40
RECURSIVE Keep(_, _)
Keep(records, fileNos) ==
    IF records = <<>> THEN <<>>
    ELSE IF Head(records).file_no \in fileNos
         THEN <<Head(records)>> \o Keep(Tail(records), fileNos)
         ELSE Keep(Tail(records), fileNos)
LinesRead == ds_pc \in {"lines", "tokenized", "ready"}

\* C9: without debug, the lines and labels are those of the records with file
\* number 1..20 (train), 21..30 (valid), 31..40 (test), in file order, line and
\* label at a position from one record; a record is in at most one split and
\* in none when its file number is outside 1..40.
C9_SplitByFileNo ==
    /\ (LinesRead /\ ~debug) =>
          LET kept == Keep(secthead_label_file, ClaimedSplit(dataset_type))
          IN  /\ Len(lines) = Len(kept) /\ Len(labels) = Len(kept)
              /\ \A k \in DOMAIN kept :
                    lines[k] = kept[k].text /\ labels[k] = kept[k].label
    /\ \A k \in DOMAIN secthead_label_file :
          Cardinality({t \in {"train", "valid", "test"} :
                          FilterSplit(<<secthead_label_file[k]>>, t) # <<>>})
              = IF secthead_label_file[k].file_no \in 1..40 THEN 1 ELSE 0
C9_Witness ==
    /\ ds_pc = "lines"
    /\ ~debug
    /\ dataset_type = "valid"
    /\ Len(secthead_label_file) = 2
    /\ secthead_label_file[1].file_no = 31
    /\ secthead_label_file[2].file_no = 30
    /\ lines = <<secthead_label_file[2].text>>
    /\ labels = <<secthead_label_file[2].label>>

\* C10: with debug on, the lines and labels are int(proportion * n) sampled
\* records of the n records of the split, line and label at a position from one
\* record, and every record of the split can be drawn.
C10_DebugSample ==
    (LinesRead /\ debug) =>
        LET split == Keep(secthead_label_file, ClaimedSplit(dataset_type))
            n == Len(split)
            size == (DebugProportion[1] * n) \div DebugProportion[2]
        IN  /\ Len(lines) = size /\ Len(labels) = size
            /\ \A k \in 1..size :
                  \E i \in 1..n : lines[k] = split[i].text /\ labels[k] = split[i].label
            /\ size >= 1 => \A i \in 0..(n - 1) : i \in SampleSpace(n)

\* two fractions stand for the same number
SameValue(a, b) == a.num * b.den = b.num * a.den
\* the tracked values of all validation epochs so far
TrackedValues == {history[k].value : k \in DOMAIN history}

\* C13: after any number of validation epochs best_track_value is the minimum
\* of inf and all validation average losses (loss mode) or the maximum of 0
\* and all validation f-scores (macro/micro mode); it never gets worse, and
\* only the end of a validation epoch changes it.
C13_BestTrackValueIsExtremum ==
    /\ [](/\ \A v \in TrackedValues : ~Better(v, best_track_value)
          /\ \E v \in TrackedValues \cup {InitialBestTrackValue(track_for_best)} :
                SameValue(v, best_track_value))
    /\ [][/\ ~Better(best_track_value, best_track_value')
          /\ best_track_value' # best_track_value =>
                (pc = "valid" /\ pc' = "valid_done")]_vars
C13_Witness ==
    /\ pc = "test_done"
    /\ Len(history) = 2
    /\ Better(history[2].value, history[1].value)
    /\ SameValue(best_track_value, history[2].value)
    /\ optimizer > 0

\* a pass of the training loop whose model output has no "loss" entry
LossMissing ==
    pc = "train" /\ batch_iter' = batch_iter + 1 /\ "loss" \notin DOMAIN model_forward_out'

\* C14: when the model's output has no "loss" entry, train_epoch reports the
\* failure, takes no optimizer step, leaves the training loss meter alone and
\* still advances the iteration counter; the epoch goes on through all its
\* batches and train_epoch_end is called once.
C14_MissingLossHandled ==
    /\ [][LossMissing =>
            /\ optimizer' = optimizer
            /\ model' = model
            /\ train_loss_meter' = train_loss_meter
            /\ num_iterations' = num_iterations + 1
            /\ pc' = "train"
            /\ \E k \in DOMAIN printed' : k > Len(printed) /\ "fail" \in DOMAIN printed'[k]]_vars
    /\ [](pc = "train_done" =>
            /\ consumed = AllBatches("train")
            /\ num_iterations = NumBatches("train")
            /\ log[Len(log)] = <<"train_epoch_end", epoch_num, AllBatches("train")>>
            /\ log[Len(log) - 1] = <<"train_epoch", epoch_num>>)
C14_Witness ==
    /\ pc = "train_done"
    /\ "fail" \in DOMAIN printed[1]
    /\ "loss" \in DOMAIN model_forward_out
    /\ train_loss_meter.count = 1
    /\ optimizer = 1
    /\ num_iterations = 2

\* the iteration numbers after which train_epoch has reported the training metrics
ReportEntries == {k \in DOMAIN printed : "report" \in DOMAIN printed[k]}
Reports == {printed[k].report : k \in ReportEntries}

\* C15: train_epoch reports the training metrics after the k-th batch of an
\* epoch exactly when k is a multiple of log_train_metrics_every, which makes
\* floor(n / log_train_metrics_every) reports in an epoch of n batches.
C15_ReportEveryKthBatch ==
    /\ pc \in {"train", "train_done"} =>
          Reports = {k \in 1..num_iterations : k % log_train_metrics_every = 0}
    /\ pc = "train_done" =>
          Cardinality(ReportEntries) = NumBatches("train") \div log_train_metrics_every

\* C16: in the dictionary __getitem__ returns, len_tokens never exceeds
\* max_length, the length of tokens, also when the sentence is truncated.
C16_LenTokensWithinMaxLength ==
    item # Absent =>
        /\ Len(Get(item).dict.tokens) = max_length
        /\ Get(item).dict.len_tokens[1] <= max_length

\* run_inference has ended with an exception
RunInferenceRaised == inf_pc \in {"ValueError", "AttributeError", "RuntimeError"}
\* the columns of a test set taken instance by instance, in dataset order
InstanceColumns ==
    [true_labels_indices |-> [i \in DOMAIN instances |-> label_mapping[labels[i]]],
     true_class_names |-> [i \in DOMAIN instances |-> labels[i]],
     sentences |-> [i \in DOMAIN instances |->
                        get_disp_sentence_from_indices(GetItem(i - 1).tokens)]]

\* C11: run_inference returns for every test set of at least one instance and
\* every batch size, a final batch of one instance included, and then each of
\* its five columns has one entry per test instance, the entry at position i
\* being that of the i-th instance of the test set.
C11_ColumnsAlignedWithTestSet ==
    /\ Len(instances) > 0 => ~RunInferenceRaised
    /\ inf_pc = "inferred" =>
          /\ \A c \in DOMAIN output_analytics :
                Len(output_analytics[c]) = Len(instances)
          /\ \A c \in DOMAIN InstanceColumns :
                output_analytics[c] = InstanceColumns[c]
          /\ output_analytics.pred_class_names =
                get_class_names_from_indices(output_analytics.predicted_labels_indices)

\* the positions of the columns that hold this (true, predicted) pair
Matching(t, p) ==
    {i \in DOMAIN output_analytics.sentences :
        /\ output_analytics.true_labels_indices[i] = t
        /\ output_analytics.predicted_labels_indices[i] = p}

\* C12: get_misclassified_sentences(t, p) returns the sentences of exactly the
\* test instances whose true label index is t and whose predicted label index
\* is p, in dataset order; with no such instance it returns the empty list.
C12_MisclassifiedSentences ==
    misclassified # Absent =>
        LET r == Get(misclassified)
            match == Matching(r.true_label_idx, r.pred_label_idx)
        IN  /\ Len(r.sentences) = Cardinality(match)
            /\ \A i \in match :
                  r.sentences[Cardinality({j \in match : j <= i})] =
                      output_analytics.sentences[i]
C12_Witness ==
    /\ misclassified # Absent
    /\ Len(output_df) = 3
    /\ Matching(Get(misclassified).true_label_idx, Get(misclassified).pred_label_idx) = {1, 3}
    /\ Get(misclassified).true_label_idx # Get(misclassified).pred_label_idx
    /\ Get(misclassified).sentences = <<"<SOS> we propose <EOS>", "<SOS> abstract <EOS>">>
    /\ output_analytics.predicted_labels_indices[2] = Get(misclassified).pred_label_idx

====
